---- MODULE Spec2Model ----
(***************************************************************************)
(* State-machine model of the tenant orchestration code of ascl-bot:       *)
(* the API credential pool, the user isolator and the host manager of      *)
(* src/host_manager.py, the session manager of src/session_manager.py and  *)
(* the authentication proxy of src/auth_proxy.py.                          *)
(*                                                                         *)
(* The host manager runs on one asyncio event loop.  A coroutine is        *)
(* atomic between two points where it really suspends, so every handler    *)
(* without such a point (create_user_instance, stop_user_bot,              *)
(* remove_user_instance and the synchronous pool methods) is one action;   *)
(* start_user_bot suspends once, in create_subprocess_exec, and is two.    *)
(*                                                                         *)
(* Exceptions raised by the file system and by the operating system are    *)
(* inputs of the actions (ConfigOutcomes, KillOutcomes, RmtreeOutcomes);   *)
(* the two JSON files are written whenever the code saves them.  Of a      *)
(* UserInstance the model keeps the phone, the credential object, the      *)
(* status and the process id; created_at, last_activity and the two paths  *)
(* are written once and read by no operation modelled here.  The pool file *)
(* is taken to exist and to hold at least one credential.                  *)
(*                                                                         *)
(* The session manager and the proxy live in the wizard's process.  The    *)
(* wizard's Application dispatches one update at a time, so a handler of   *)
(* the proxy is one action, up to the suspension of start_user_bot.  What  *)
(* Telegram answers to the Telethon client is an input of the actions,     *)
(* constrained by the login state Telegram keeps for the client            *)
(* (SignInCode, SignInPassword).                                           *)
(*                                                                         *)
(* The resource monitor and the secure cleanup of src/security_manager.py  *)
(* are synchronous methods, one action each.  No module of the repository  *)
(* imports them, so they appear as calls that can be made at any time.     *)
(*                                                                         *)
(* The rate limiter of src/security.py lives in each worker; its           *)
(* check_rate_limit is synchronous, one action.  The wizard's handler of   *)
(* a phone number (src/wizard_bot.py) chooses the credential the           *)
(* authentication is started with.                                         *)
(***************************************************************************)
EXTENDS Integers, Sequences, FiniteSets, TLC

\* ---- bounds ----
MaxTenants == 2
MaxCreds == 2
MaxUsers == 2
MaxTime == 3
MaxPid == 2
MaxPhone == 1
MaxInflight == 2
MaxCodes == 2
MaxAuthUsers == 1
MaxRateUsers == 2
RateLimitRequests == 2
RateLimitPeriod == 1
MaxRefused == 2 * MaxRateUsers * RateLimitRequests

Tenants == 1..MaxTenants
Pids == 1..MaxPid
Phones == 1..MaxPhone
\* the users who go through the authentication of the wizard
AuthUsers == 1..MaxAuthUsers
RateUsers == 1..MaxRateUsers

\* outcomes of the file-system calls of create_user_config
ConfigOutcomes == {"ok", "mkdir_fail", "write_fail"}
\* outcomes of os.kill other than the one the process table decides
KillOutcomes == {"sent", "os_error"}
\* outcomes of shutil.rmtree
RmtreeOutcomes == {"ok", "fail"}

VARIABLES
    credentials,     \* APICredentialPool.credentials: the pool's objects, in list order
    credFile,        \* api_credentials.json
    user_instances,  \* HostManager.user_instances: dict user_id -> UserInstance
    instFile,        \* user_instances.json
    env,             \* env[t]: the directory user_instances/user_<t> exists
    procs,           \* procs[p]: the tenant whose worker runs with pid p, 0 when no process has pid p
    sigterm,         \* pids of live processes that were sent SIGTERM
    starting,        \* start_user_bot calls suspended in create_subprocess_exec
    now,             \* datetime.now().timestamp()
    ret,             \* the last call and what it returned
    scen,            \* position in the end-to-end scenario, -1 once the run has left it
    active_sessions,        \* TelegramSessionManager.active_sessions: user_id -> AuthSession
    authenticated_clients,  \* user ids that have a TelegramClient stored
    pending_auth,           \* AuthenticationProxy.pending_auth: user_id -> phone and step
    telegram,        \* Telegram's side of each user's login: its state and the
                     \* phone_code_hash of the last code it sent
    user_request_history,  \* security.SecurityManager.user_request_history:
                           \* user id -> the deque of the times of its admitted requests
    user_blocked_until,    \* security.SecurityManager.user_blocked_until: user id -> time
    metrics,         \* security.SecurityMetrics: the counters of the requests
    admitted         \* history: the times of all requests check_rate_limit admitted, per user

hostVars == <<credentials, credFile, user_instances, instFile, env, procs, sigterm,
              starting>>

authVars == <<active_sessions, authenticated_clients, pending_auth, telegram>>

rateVars == <<user_request_history, user_blocked_until, metrics, admitted>>

vars == <<credentials, credFile, user_instances, instFile, env, procs, sigterm,
          starting, now, ret, scen, active_sessions, authenticated_clients,
          pending_auth, telegram, user_request_history, user_blocked_until,
          metrics, admitted>>

\* ---- APICredential / APICredentialPool ----

APICredential(id, mx) ==
    [api_id |-> id, in_use |-> 0, max_users |-> mx, last_used |-> 0]

RECURSIVE MinScan(_, _, _)
\* min(available, key=in_use): the scan keeps the first of the smallest
MinScan(pool, i, best) ==
    IF i > Len(pool) THEN best
    ELSE MinScan(pool, i + 1,
           IF /\ pool[i].in_use < pool[i].max_users
              /\ (best = 0 \/ pool[i].in_use < pool[best].in_use)
           THEN i ELSE best)

RECURSIVE MinScanLast(_, _, _)
\* a scan that keeps the last of the smallest instead of the first
MinScanLast(pool, i, best) ==
    IF i > Len(pool) THEN best
    ELSE MinScanLast(pool, i + 1,
           IF /\ pool[i].in_use < pool[i].max_users
              /\ (best = 0 \/ pool[i].in_use <= pool[best].in_use)
           THEN i ELSE best)

get_available_credential_last(pool) == MinScanLast(pool, 1, 0)

\* index in the pool of the credential returned, 0 for None
get_available_credential(pool) == MinScan(pool, 1, 0)

\* allocate_credential with the capacity test off by one
allocate_credential_off_by_one(pool, i, t) ==
    IF pool[i].in_use > pool[i].max_users
    THEN [ok |-> FALSE, pool |-> pool]
    ELSE [ok |-> TRUE,
          pool |-> [pool EXCEPT ![i].in_use = @ + 1, ![i].last_used = t]]

\* allocate_credential on the pool's i-th object at time t
allocate_credential(pool, i, t) ==
    IF pool[i].in_use >= pool[i].max_users
    THEN [ok |-> FALSE, pool |-> pool]
    ELSE [ok |-> TRUE,
          pool |-> [pool EXCEPT ![i].in_use = @ + 1, ![i].last_used = t]]

\* release_credential without the test for zero
release_credential_unguarded(pool, i) ==
    [ok |-> TRUE, pool |-> [pool EXCEPT ![i].in_use = @ - 1]]

\* release_credential on the pool's i-th object
release_credential(pool, i) ==
    IF pool[i].in_use > 0
    THEN [ok |-> TRUE, pool |-> [pool EXCEPT ![i].in_use = @ - 1]]
    ELSE [ok |-> FALSE, pool |-> pool]

\* position in the pool of the object with this api_id (0 when absent)
PoolIndex(pool, id) ==
    IF \E i \in 1..Len(pool) : pool[i].api_id = id
    THEN CHOOSE i \in 1..Len(pool) : pool[i].api_id = id
    ELSE 0

\* ---- UserInstance ----

\* A UserInstance holds a reference to an APICredential object.  pooled = TRUE:
\* the object is the pool's (create_user_instance); pooled = FALSE: the object
\* is a private one rebuilt from user_instances.json (load_user_instances),
\* whose in_use is the field of this record.
UserInstance(phone, id, pooled, inuse) ==
    [phone |-> phone, api_id |-> id, pooled |-> pooled, in_use |-> inuse,
     status |-> "inactive", process_id |-> 0]

\* in_use of the credential object the instance refers to
InstanceInUse(pool, inst) ==
    IF inst.pooled THEN pool[PoolIndex(pool, inst.api_id)].in_use ELSE inst.in_use

\* save_user_instances: asdict of every instance, the credential object included
save_user_instances(pool, insts) ==
    [t \in DOMAIN insts |->
        [phone |-> insts[t].phone, api_id |-> insts[t].api_id,
         in_use |-> InstanceInUse(pool, insts[t]),
         status |-> insts[t].status, process_id |-> insts[t].process_id]]

\* load_user_instances that finds no document
load_user_instances_empty(file) == <<>>

\* load_user_instances: a new APICredential object per instance, status inactive
load_user_instances(file) ==
    [t \in DOMAIN file |->
        UserInstance(file[t].phone, file[t].api_id, FALSE, file[t].in_use)]

Put(f, k, v) == [x \in DOMAIN f \cup {k} |-> IF x = k THEN v ELSE f[x]]
Drop(f, k) == [x \in DOMAIN f \ {k} |-> f[x]]

\* a call and its result; log is the message of the result, or the line the
\* call wrote to the log, where two paths of a call return the same value
ReturnLog(op, arg, ok, log) == [op |-> op, arg |-> arg, ok |-> ok, log |-> log]

Return(op, arg, ok) == ReturnLog(op, arg, ok, "")

\* ---- the end-to-end scenario of the specification ----
\* create(1), create(2), delete(1), create(2) on a fresh one-credential pool of
\* capacity 1, with no file-system failure and nothing else in between
ScenStep(op, t, fs) ==
    IF scen = 0 /\ op = "create" /\ t = 1 /\ fs = "ok" THEN 1
    ELSE IF scen = 1 /\ op = "create" /\ t = 2 THEN 2
    ELSE IF scen = 2 /\ op = "delete" /\ t = 1 /\ fs = "ok" THEN 3
    ELSE IF scen = 3 /\ op = "create" /\ t = 2 /\ fs = "ok" THEN 4
    ELSE -1

\* ---- initial states ----

\* the pools an administrator can configure: 1..MaxCreds credentials, each
\* with a capacity in 1..MaxUsers, nothing in use
InitialPools ==
    UNION {[1..n -> {APICredential(0, m) : m \in 1..MaxUsers}] : n \in 1..MaxCreds}

WithIds(pool) == [i \in 1..Len(pool) |-> [pool[i] EXCEPT !.api_id = i]]

Init ==
    /\ credentials \in {WithIds(p) : p \in InitialPools}
    /\ credFile = credentials
    /\ user_instances = <<>>
    /\ instFile = <<>>
    /\ env = [t \in Tenants |-> FALSE]
    /\ procs = [p \in Pids |-> 0]
    /\ sigterm = {}
    /\ starting = [t \in Tenants |-> [live |-> 0, stale |-> 0]]
    /\ now = 1
    /\ ret = Return("init", 0, TRUE)
    /\ scen = IF Len(credentials) = 1 /\ credentials[1].max_users = 1 THEN 0 ELSE -1
    /\ active_sessions = <<>>
    /\ authenticated_clients = {}
    /\ pending_auth = <<>>
    /\ telegram = [t \in Tenants |-> [state |-> "none", hash |-> 0]]
    /\ user_request_history = [u \in RateUsers |-> <<>>]
    /\ user_blocked_until = <<>>
    /\ metrics = [total_requests |-> 0, rate_limited_requests |-> 0,
                  blocked_requests |-> 0]
    /\ admitted = [u \in RateUsers |-> <<>>]

\* ---- HostManager.create_user_instance ----

\* line 245: user_id in self.user_instances, without the test
AlreadyExistsNever(insts, t) == FALSE

\* line 245: user_id in self.user_instances
AlreadyExists(insts, t) == t \in DOMAIN insts

\* an allocation that takes the first credential whatever its usage
CreateAllocationUnchecked(pool, t) ==
    [c |-> 1, pool |-> [pool EXCEPT ![1].in_use = @ + 1, ![1].last_used = t]]

\* lines 249-258: the credential create_user_instance gets and allocates;
\* c = 0 when it returns False there
CreateAllocation(pool, t) ==
    LET c == get_available_credential(pool) IN
    IF c = 0 THEN [c |-> 0, pool |-> pool]
    ELSE LET a == allocate_credential(pool, c, t) IN
         IF a.ok THEN [c |-> c, pool |-> a.pool] ELSE [c |-> 0, pool |-> pool]

\* what create_user_instance(t, phone) does to the pool, the registry, their
\* files and the environments; ok is the value it returns
CreateEffect(t, phone, fs) ==
    LET same == [ok |-> FALSE, pool |-> credentials, poolFile |-> credFile,
                 insts |-> user_instances, file |-> instFile, env |-> env]
        a == CreateAllocation(credentials, now)
        insts2 == Put(user_instances, t,
                      UserInstance(phone, credentials[a.c].api_id, TRUE, 0))
    IN
    IF AlreadyExists(user_instances, t) THEN same
    ELSE IF a.c = 0 THEN same
    ELSE IF fs = "ok"
    THEN [ok |-> TRUE, pool |-> a.pool, poolFile |-> a.pool,
          insts |-> insts2, file |-> save_user_instances(a.pool, insts2),
          env |-> [env EXCEPT ![t] = TRUE]]
    ELSE [ok |-> FALSE, pool |-> a.pool, poolFile |-> a.pool,
          insts |-> user_instances, file |-> instFile,
          env |-> [env EXCEPT ![t] = @ \/ fs = "write_fail"]]

create_user_instance(t, phone, fs) ==
    LET e == CreateEffect(t, phone, fs) IN
    /\ credentials' = e.pool
    /\ credFile' = e.poolFile
    /\ user_instances' = e.insts
    /\ instFile' = e.file
    /\ env' = e.env
    /\ ret' = Return("create", t, e.ok)
    /\ scen' = ScenStep("create", t, fs)
    /\ UNCHANGED <<procs, sigterm, starting, now>>

CreateTenant == \E t \in Tenants, ph \in Phones, fs \in ConfigOutcomes :
                    create_user_instance(t, ph, fs) /\ UNCHANGED <<authVars, rateVars>>

\* ---- host restart: HostManager.__init__ ----

HostManagerInit ==
    /\ credentials' = credFile
    /\ user_instances' = load_user_instances(instFile)
    /\ starting' = [t \in Tenants |-> [live |-> 0, stale |-> 0]]
    /\ ret' = Return("restart", 0, TRUE)
    /\ scen' = -1
    /\ active_sessions' = <<>>
    /\ authenticated_clients' = {}
    /\ pending_auth' = <<>>
    /\ UNCHANGED <<credFile, instFile, env, procs, sigterm, now, telegram>>
    /\ UNCHANGED rateVars

\* ---- HostManager.stop_user_bot ----

\* What stop_user_bot(t) does to the registry and to the process table:
\* ok is the value returned, saved tells whether save_user_instances ran.
\* stop_user_bot without the test of the status (line 347)
StopEffectAnyStatus(insts, t, kill) ==
    IF t \notin DOMAIN insts
    THEN [ok |-> TRUE, insts |-> insts, sig |-> sigterm, saved |-> FALSE,
          log |-> ""]
    ELSE [ok |-> TRUE,
          insts |-> [insts EXCEPT ![t].status = "inactive", ![t].process_id = 0],
          sig |-> IF insts[t].process_id /= 0 /\ procs[insts[t].process_id] /= 0
                  THEN sigterm \cup {insts[t].process_id}
                  ELSE sigterm,
          saved |-> TRUE,
          log |-> ""]

\* stop_user_bot with ProcessLookupError handled as the other exceptions are
StopEffectLookupFails(insts, t, kill) ==
    IF t \notin DOMAIN insts \/ insts[t].status /= "active"
    THEN [ok |-> TRUE, insts |-> insts, sig |-> sigterm, saved |-> FALSE,
          log |-> ""]
    ELSE IF insts[t].process_id /= 0
            /\ (kill = "os_error" \/ procs[insts[t].process_id] = 0)
    THEN [ok |-> FALSE, insts |-> insts, sig |-> sigterm, saved |-> FALSE,
          log |-> "Failed to stop bot"]
    ELSE [ok |-> TRUE,
          insts |-> [insts EXCEPT ![t].status = "inactive", ![t].process_id = 0],
          sig |-> IF insts[t].process_id /= 0
                  THEN sigterm \cup {insts[t].process_id} ELSE sigterm,
          saved |-> TRUE,
          log |-> IF insts[t].process_id = 0 THEN "" ELSE "Stopped bot"]

\* a stop that marks the tenant inactive and keeps its process id
StopEffectKeepsPid(insts, t, kill) ==
    IF t \notin DOMAIN insts \/ insts[t].status /= "active"
    THEN [ok |-> TRUE, insts |-> insts, sig |-> sigterm, saved |-> FALSE,
          log |-> ""]
    ELSE [ok |-> TRUE, insts |-> [insts EXCEPT ![t].status = "inactive"],
          sig |-> sigterm, saved |-> TRUE, log |-> ""]

\* a stop that marks every tenant of the registry inactive
StopEffectEveryTenant(insts, t, kill) ==
    [ok |-> TRUE,
     insts |-> [u \in DOMAIN insts |->
                   [insts[u] EXCEPT !.status = "inactive", !.process_id = 0]],
     sig |-> sigterm, saved |-> TRUE, log |-> ""]

\* kill = "sent": os.kill finds the pid in the process table or raises
\* ProcessLookupError; kill = "os_error": it raises another OSError.
StopEffect(insts, t, kill) ==
    IF t \notin DOMAIN insts \/ insts[t].status /= "active"
    THEN [ok |-> TRUE, insts |-> insts, sig |-> sigterm, saved |-> FALSE,
          log |-> ""]
    ELSE IF insts[t].process_id /= 0 /\ kill = "os_error"
    THEN [ok |-> FALSE, insts |-> insts, sig |-> sigterm, saved |-> FALSE,
          log |-> "Failed to stop bot"]
    ELSE [ok |-> TRUE,
          insts |-> [insts EXCEPT ![t].status = "inactive", ![t].process_id = 0],
          sig |-> IF insts[t].process_id /= 0 /\ procs[insts[t].process_id] /= 0
                  THEN sigterm \cup {insts[t].process_id}
                  ELSE sigterm,
          saved |-> TRUE,
          log |-> IF insts[t].process_id = 0 THEN ""
                  ELSE IF procs[insts[t].process_id] /= 0 THEN "Stopped bot"
                  ELSE "Process not found"]

stop_user_bot(t, kill) ==
    LET s == StopEffect(user_instances, t, kill) IN
    /\ user_instances' = s.insts
    /\ sigterm' = s.sig
    /\ instFile' = IF s.saved THEN save_user_instances(credentials, s.insts) ELSE instFile
    /\ ret' = ReturnLog("stop", t, s.ok, s.log)
    /\ scen' = -1
    /\ UNCHANGED <<credentials, credFile, env, procs, starting, now>>

StopBot == \E t \in Tenants, kill \in KillOutcomes :
               stop_user_bot(t, kill) /\ UNCHANGED <<authVars, rateVars>>

\* ---- HostManager.remove_user_instance ----

\* a release that is skipped
ReleaseOfSkipped(pool, inst) == [ok |-> FALSE, pool |-> pool]

\* release_credential(instance.api_credential): on the pool's own object it
\* changes the pool; on an object rebuilt by load_user_instances it changes
\* that object only, and save_credentials rewrites the file from the pool.
ReleaseOf(pool, inst) ==
    IF inst.pooled
    THEN release_credential(pool, PoolIndex(pool, inst.api_id))
    ELSE [ok |-> inst.in_use > 0, pool |-> pool]

remove_user_instance(t, kill, rm) ==
    LET s == StopEffect(user_instances, t, kill)
        found == t \in DOMAIN s.insts
        r == IF found THEN ReleaseOf(credentials, s.insts[t])
                      ELSE [ok |-> FALSE, pool |-> credentials]
        insts2 == IF found THEN Drop(s.insts, t) ELSE s.insts
    IN
    /\ sigterm' = s.sig
    /\ credentials' = r.pool
    /\ credFile' = IF r.ok THEN r.pool ELSE credFile
    /\ user_instances' = insts2
    /\ instFile' = IF found \/ s.saved
                   THEN save_user_instances(r.pool, insts2) ELSE instFile
    /\ starting' = IF found
                   THEN [starting EXCEPT ![t] =
                            [live |-> 0, stale |-> @.live + @.stale]]
                   ELSE starting
    /\ IF env[t] /\ rm = "fail"
       THEN /\ env' = env
            /\ ret' = Return("delete", t, FALSE)
       ELSE /\ env' = [env EXCEPT ![t] = FALSE]
            /\ ret' = Return("delete", t, TRUE)
    /\ scen' = ScenStep("delete", t, IF env[t] THEN rm ELSE "ok")
    /\ UNCHANGED <<procs, now>>

DeleteTenant == \E t \in Tenants, kill \in KillOutcomes, rm \in RmtreeOutcomes :
                    remove_user_instance(t, kill, rm) /\ UNCHANGED <<authVars, rateVars>>

\* ---- HostManager.start_user_bot ----

\* line 292: instance.status == "active", without the test
AlreadyActiveNever(insts, t) == FALSE

\* line 292: instance.status == "active"
AlreadyActive(insts, t) == insts[t].status = "active"

\* up to the suspension in create_subprocess_exec
start_user_bot(t, copy) ==
    /\ scen' = -1
    /\ UNCHANGED <<credentials, credFile, user_instances, instFile, env, procs,
                   sigterm, now>>
    /\ IF t \notin DOMAIN user_instances
       THEN ret' = Return("start", t, FALSE) /\ UNCHANGED starting
       ELSE IF AlreadyActive(user_instances, t)
       THEN ret' = Return("start", t, TRUE) /\ UNCHANGED starting
       ELSE IF copy = "fail"
       THEN ret' = Return("start", t, FALSE) /\ UNCHANGED starting
       ELSE /\ starting[t].live + starting[t].stale < MaxInflight
            /\ starting' = [starting EXCEPT ![t].live = @ + 1]
            /\ ret' = Return("start_suspended", t, TRUE)

StartBot == \E t \in Tenants, copy \in {"ok", "fail"} :
                start_user_bot(t, copy) /\ UNCHANGED <<authVars, rateVars>>

\* create_subprocess_exec raised: the call returns False
StartSpawnFailed(t) ==
    /\ starting[t].live + starting[t].stale > 0
    /\ \E k \in {"live", "stale"} :
          /\ starting[t][k] > 0
          /\ starting' = [starting EXCEPT ![t][k] = @ - 1]
    /\ ret' = Return("start_resumed", t, FALSE)
    /\ scen' = -1
    /\ UNCHANGED <<credentials, credFile, user_instances, instFile, env, procs,
                   sigterm, now>>
    /\ UNCHANGED <<authVars, rateVars>>

\* the worker was spawned with pid p; the call goes on with the instance
\* object it fetched before suspending
StartSpawned(t, p) ==
    /\ procs[p] = 0
    /\ procs' = [procs EXCEPT ![p] = t]
    /\ \/ /\ starting[t].live > 0
          /\ starting' = [starting EXCEPT ![t].live = @ - 1]
          /\ user_instances' = [user_instances EXCEPT
                                  ![t].process_id = p, ![t].status = "active"]
       \/ /\ starting[t].stale > 0
          /\ starting' = [starting EXCEPT ![t].stale = @ - 1]
          /\ UNCHANGED user_instances
    /\ instFile' = save_user_instances(credentials, user_instances')
    /\ ret' = Return("start_resumed", t, TRUE)
    /\ scen' = -1
    /\ UNCHANGED <<credentials, credFile, env, sigterm, now>>
    /\ UNCHANGED <<authVars, rateVars>>

StartResume == \E t \in Tenants :
                  StartSpawnFailed(t) \/ \E p \in Pids : StartSpawned(t, p)

\* ---- the environment ----

\* a worker process ends (after SIGTERM or on its own)
ProcExit ==
    \E p \in Pids :
        /\ procs[p] /= 0
        /\ procs' = [procs EXCEPT ![p] = 0]
        /\ sigterm' = sigterm \ {p}
        /\ ret' = Return("none", 0, TRUE)
        /\ UNCHANGED <<credentials, credFile, user_instances, instFile, env,
                       starting, now, scen>>
        /\ UNCHANGED <<authVars, rateVars>>

Tick ==
    /\ now < MaxTime
    /\ now' = now + 1
    /\ ret' = Return("none", 0, TRUE)
    /\ UNCHANGED <<credentials, credFile, user_instances, instFile, env, procs,
                   sigterm, starting, scen>>
    /\ UNCHANGED <<authVars, rateVars>>

\* ---- direct calls of the pool's methods ----

GetAvailable ==
    /\ ret' = Return("get_available", get_available_credential(credentials),
                     get_available_credential(credentials) /= 0)
    /\ scen' = -1
    /\ UNCHANGED <<credentials, credFile, user_instances, instFile, env, procs,
                   sigterm, starting, now>>
    /\ UNCHANGED <<authVars, rateVars>>

Allocate ==
    \E i \in 1..Len(credentials) :
        LET a == allocate_credential(credentials, i, now) IN
        /\ credentials' = a.pool
        /\ credFile' = IF a.ok THEN a.pool ELSE credFile
        /\ ret' = Return("allocate", i, a.ok)
        /\ scen' = -1
        /\ UNCHANGED <<user_instances, instFile, env, procs, sigterm, starting, now>>
        /\ UNCHANGED <<authVars, rateVars>>

Release ==
    \E i \in 1..Len(credentials) :
        LET r == release_credential(credentials, i) IN
        /\ credentials' = r.pool
        /\ credFile' = IF r.ok THEN r.pool ELSE credFile
        /\ ret' = Return("release", i, r.ok)
        /\ scen' = -1
        /\ UNCHANGED <<user_instances, instFile, env, procs, sigterm, starting, now>>
        /\ UNCHANGED <<authVars, rateVars>>

\* ---- Telegram, as the Telethon client presents it ----

\* the model's clock counts in units of the lifetime of a session (300 s)
SessionLifetime == 1

NetOutcomes == {"ok", "error"}
Answers == {"correct", "incorrect"}

\* client.sign_in(phone, code, phone_code_hash=hash) on the login state tg:
\* it returns at once on an authorized client; otherwise Telegram checks the
\* code against the last one it sent and, when the account has a two-step
\* password, answers SessionPasswordNeededError until that password is given.
SignInCode(tg, hash, code, twofa, net) ==
    IF net = "error" THEN [out |-> "error", tg |-> tg]
    ELSE IF tg.state = "authorized" THEN [out |-> "ok", tg |-> tg]
    ELSE IF tg.state = "none" \/ hash /= tg.hash THEN [out |-> "error", tg |-> tg]
    ELSE IF code = "incorrect" THEN [out |-> "code_invalid", tg |-> tg]
    ELSE IF tg.state = "password" \/ twofa
    THEN [out |-> "password_needed", tg |-> [tg EXCEPT !.state = "password"]]
    ELSE [out |-> "ok", tg |-> [tg EXCEPT !.state = "authorized"]]

\* client.sign_in(password=password)
SignInPassword(tg, password, net) ==
    IF net = "error" THEN [out |-> "error", tg |-> tg]
    ELSE IF tg.state = "authorized" THEN [out |-> "ok", tg |-> tg]
    ELSE IF tg.state = "password" /\ password = "correct"
    THEN [out |-> "ok", tg |-> [tg EXCEPT !.state = "authorized"]]
    ELSE [out |-> "error", tg |-> tg]

\* ---- TelegramSessionManager ----

\* an AuthSession left with the default status of the dataclass
AuthSessionPending(phone, hash, t) ==
    [phone |-> phone, status |-> "pending", code_hash |-> hash,
     expires_at |-> t + SessionLifetime]

\* the AuthSession start_authentication builds at time t (lines 68-78)
AuthSession(phone, hash, t) ==
    [phone |-> phone, status |-> "code_sent", code_hash |-> hash,
     expires_at |-> t + SessionLifetime]

\* the result of a call of the session manager: the dictionary returned
\* (success, status, message) and the dictionaries and login state it leaves
AuthResult(success, status, message, sessions, clients, tg) ==
    [success |-> success, status |-> status, message |-> message,
     sessions |-> sessions, clients |-> clients, tg |-> tg]

\* an error result that is returned as a completed authentication
AuthErrorAsAuthenticated(message, sessions) ==
    AuthResult(TRUE, "authenticated", message, sessions, authenticated_clients,
               telegram)

AuthError(message, sessions) ==
    AuthResult(FALSE, "error", message, sessions, authenticated_clients, telegram)

StartOutcomes == {"ok", "mkdir_fail", "connect_fail"}
SendOutcomes == {"sent", "invalid_phone", "error"}

\* start_authentication without the test of is_user_authorized (lines 54-62)
StartAuthResultNoBypass(t, phone, conn, send) ==
    IF conn /= "ok" THEN AuthError("Authentication error", active_sessions)
    ELSE IF send = "invalid_phone"
    THEN AuthError("Invalid phone number format", active_sessions)
    ELSE IF send = "error" THEN AuthError("Authentication error", active_sessions)
    ELSE AuthResult(TRUE, "code_sent", "Verification code sent",
                    Put(active_sessions, t,
                        AuthSession(phone, telegram[t].hash + 1, now)),
                    authenticated_clients \cup {t},
                    [telegram EXCEPT ![t] = [state |-> "code", hash |-> @.hash + 1]])

\* start_authentication that keeps the record of a session already in flight
\* (setdefault in place of the assignment of line 80)
StartAuthResultKeepsInFlight(t, phone, conn, send) ==
    IF conn /= "ok" THEN AuthError("Authentication error", active_sessions)
    ELSE IF telegram[t].state = "authorized"
    THEN AuthResult(TRUE, "already_authenticated", "User is already authenticated",
                    active_sessions, authenticated_clients \cup {t}, telegram)
    ELSE IF send = "invalid_phone"
    THEN AuthError("Invalid phone number format", active_sessions)
    ELSE IF send = "error" THEN AuthError("Authentication error", active_sessions)
    ELSE AuthResult(TRUE, "code_sent", "Verification code sent",
                    IF t \in DOMAIN active_sessions THEN active_sessions
                    ELSE Put(active_sessions, t,
                             AuthSession(phone, telegram[t].hash + 1, now)),
                    authenticated_clients \cup {t},
                    [telegram EXCEPT ![t] = [state |-> "code", hash |-> @.hash + 1]])

\* start_authentication(t, phone, ...)
StartAuthResult(t, phone, conn, send) ==
    IF conn /= "ok" THEN AuthError("Authentication error", active_sessions)
    ELSE IF telegram[t].state = "authorized"
    THEN AuthResult(TRUE, "already_authenticated", "User is already authenticated",
                    active_sessions, authenticated_clients \cup {t}, telegram)
    ELSE IF send = "invalid_phone"
    THEN AuthError("Invalid phone number format", active_sessions)
    ELSE IF send = "error" THEN AuthError("Authentication error", active_sessions)
    ELSE AuthResult(TRUE, "code_sent", "Verification code sent",
                    Put(active_sessions, t,
                        AuthSession(phone, telegram[t].hash + 1, now)),
                    authenticated_clients \cup {t},
                    [telegram EXCEPT ![t] = [state |-> "code", hash |-> @.hash + 1]])

\* verify_code that discards the session when the code is refused
VerifyCodeResultDiscarding(t, code, twofa, net) ==
    IF t \notin DOMAIN active_sessions
    THEN AuthError("No active authentication session", active_sessions)
    ELSE IF now > active_sessions[t].expires_at
    THEN AuthError("Authentication session expired", Drop(active_sessions, t))
    ELSE IF t \notin authenticated_clients
    THEN AuthError("Client not found", active_sessions)
    ELSE LET r == SignInCode(telegram[t], active_sessions[t].code_hash,
                             code, twofa, net)
         IN
         IF r.out = "ok"
         THEN AuthResult(TRUE, "authenticated", "Authentication successful",
                         [active_sessions EXCEPT ![t].status = "authenticated"],
                         authenticated_clients, [telegram EXCEPT ![t] = r.tg])
         ELSE IF r.out = "password_needed"
         THEN AuthResult(FALSE, "password_required",
                         "Two-factor authentication password required",
                         [active_sessions EXCEPT ![t].status = "password_required"],
                         authenticated_clients, [telegram EXCEPT ![t] = r.tg])
         ELSE IF r.out = "code_invalid"
         THEN AuthError("Invalid verification code", Drop(active_sessions, t))
         ELSE AuthError("Verification error", active_sessions)

\* verify_code(t, code)
VerifyCodeResult(t, code, twofa, net) ==
    IF t \notin DOMAIN active_sessions
    THEN AuthError("No active authentication session", active_sessions)
    ELSE IF now > active_sessions[t].expires_at
    THEN AuthError("Authentication session expired", Drop(active_sessions, t))
    ELSE IF t \notin authenticated_clients
    THEN AuthError("Client not found", active_sessions)
    ELSE LET r == SignInCode(telegram[t], active_sessions[t].code_hash,
                             code, twofa, net)
         IN
         IF r.out = "ok"
         THEN AuthResult(TRUE, "authenticated", "Authentication successful",
                         [active_sessions EXCEPT ![t].status = "authenticated"],
                         authenticated_clients, [telegram EXCEPT ![t] = r.tg])
         ELSE IF r.out = "password_needed"
         THEN AuthResult(FALSE, "password_required",
                         "Two-factor authentication password required",
                         [active_sessions EXCEPT ![t].status = "password_required"],
                         authenticated_clients, [telegram EXCEPT ![t] = r.tg])
         ELSE IF r.out = "code_invalid"
         THEN AuthError("Invalid verification code", active_sessions)
         ELSE AuthError("Verification error", active_sessions)

\* verify_password(t, password)
VerifyPasswordResult(t, password, net) ==
    IF \/ t \notin DOMAIN active_sessions
       \/ active_sessions[t].status /= "password_required"
    THEN AuthError("No password verification required", active_sessions)
    ELSE IF t \notin authenticated_clients
    THEN AuthError("Client not found", active_sessions)
    ELSE LET r == SignInPassword(telegram[t], password, net) IN
         IF r.out = "ok"
         THEN AuthResult(TRUE, "authenticated", "Two-factor authentication successful",
                         [active_sessions EXCEPT ![t].status = "authenticated"],
                         authenticated_clients, [telegram EXCEPT ![t] = r.tg])
         ELSE AuthError("Password verification error", active_sessions)

\* ---- direct calls of the session manager's methods ----

StartAuthentication ==
    \E t \in AuthUsers, ph \in Phones, conn \in StartOutcomes, send \in SendOutcomes :
        LET r == StartAuthResult(t, ph, conn, send) IN
        /\ telegram[t].hash < MaxCodes
        /\ active_sessions' = r.sessions
        /\ authenticated_clients' = r.clients
        /\ telegram' = r.tg
        /\ env' = [env EXCEPT ![t] = @ \/ conn /= "mkdir_fail"]
        /\ ret' = ReturnLog("start_authentication", t, r.success, r.message)
        /\ scen' = -1
        /\ UNCHANGED <<credentials, credFile, user_instances, instFile, procs,
                       sigterm, starting, now, pending_auth>>
        /\ UNCHANGED rateVars

VerifyCode ==
    \E t \in AuthUsers, code \in Answers, twofa \in BOOLEAN, net \in NetOutcomes :
        LET r == VerifyCodeResult(t, code, twofa, net) IN
        /\ active_sessions' = r.sessions
        /\ authenticated_clients' = r.clients
        /\ telegram' = r.tg
        /\ ret' = ReturnLog("verify_code", t, r.success, r.message)
        /\ scen' = -1
        /\ UNCHANGED <<hostVars, now, pending_auth, rateVars>>

VerifyPassword ==
    \E t \in AuthUsers, password \in Answers, net \in NetOutcomes :
        LET r == VerifyPasswordResult(t, password, net) IN
        /\ active_sessions' = r.sessions
        /\ authenticated_clients' = r.clients
        /\ telegram' = r.tg
        /\ ret' = ReturnLog("verify_password", t, r.success, r.message)
        /\ scen' = -1
        /\ UNCHANGED <<hostVars, now, pending_auth, rateVars>>

\* ---- AuthenticationProxy ----

\* _complete_authentication that leaves the pending entry in place
PendingAfterCompleteKept(pending, t) == pending

\* lines 132-135: the pending entry is deleted before the tenant is created
PendingAfterComplete(pending, t) == Drop(pending, t)

\* lines 133-139: the phone of the pending entry, else of the session, else
\* "unknown" (0)
CompletePhone(t, sessions) ==
    IF t \in DOMAIN pending_auth THEN pending_auth[t].phone
    ELSE IF t \in DOMAIN sessions THEN sessions[t].phone
    ELSE 0

\* _complete_authentication(t) within the handler op, up to the suspension of
\* start_user_bot: create_user_instance and, when it succeeded, the start of
\* the worker.  sessions is active_sessions as the handler left it; dir tells
\* whether the handler has made the user's directory.
complete_authentication(t, sessions, dir, fs, copy, op) ==
    LET e == CreateEffect(t, CompletePhone(t, sessions), fs) IN
    /\ pending_auth' = PendingAfterComplete(pending_auth, t)
    /\ credentials' = e.pool
    /\ credFile' = e.poolFile
    /\ user_instances' = e.insts
    /\ instFile' = e.file
    /\ env' = [e.env EXCEPT ![t] = @ \/ dir]
    /\ UNCHANGED <<procs, sigterm>>
    /\ IF ~e.ok
       THEN /\ ret' = ReturnLog(op, t, TRUE, "Failed to create your bot instance")
            /\ UNCHANGED starting
       ELSE IF copy = "fail"
       THEN /\ ret' = ReturnLog(op, t, TRUE, "Failed to start your bot")
            /\ UNCHANGED starting
       ELSE /\ starting[t].live + starting[t].stale < MaxInflight
            /\ starting' = [starting EXCEPT ![t].live = @ + 1]
            /\ ret' = ReturnLog(op, t, TRUE, "start_suspended")

start_phone_auth(t, phone, api_id, conn, send, fs, copy) ==
    LET r == StartAuthResult(t, phone, conn, send) IN
    /\ telegram[t].hash < MaxCodes
    /\ active_sessions' = r.sessions
    /\ authenticated_clients' = r.clients
    /\ telegram' = r.tg
    /\ scen' = -1
    /\ UNCHANGED <<now, rateVars>>
    /\ IF r.success /\ r.status = "already_authenticated"
       THEN complete_authentication(t, r.sessions, TRUE, fs, copy, "start_phone_auth")
       ELSE /\ pending_auth' = IF r.success
                               THEN Put(pending_auth, t,
                                        [phone |-> phone, api_id |-> api_id,
                                         step |-> "code"])
                               ELSE pending_auth
            /\ env' = [env EXCEPT ![t] = @ \/ conn /= "mkdir_fail"]
            /\ ret' = ReturnLog("start_phone_auth", t, r.success, r.message)
            /\ UNCHANGED <<credentials, credFile, user_instances, instFile, procs,
                           sigterm, starting>>

\* the wizard's message_handler on a phone number (wizard_bot.py 340-351): it
\* takes the credential get_available_credential returns and starts the
\* authentication with its api_id, or replies that none is available
StartPhoneAuth ==
    \E t \in AuthUsers, ph \in Phones, conn \in StartOutcomes, send \in SendOutcomes,
       fs \in ConfigOutcomes, copy \in {"ok", "fail"} :
        LET c == get_available_credential(credentials) IN
        IF c = 0
        THEN /\ ret' = ReturnLog("message_handler", t, FALSE,
                                 "No available API credentials")
             /\ scen' = -1
             /\ UNCHANGED <<hostVars, authVars, rateVars, now>>
        ELSE start_phone_auth(t, ph, credentials[c].api_id, conn, send, fs, copy)

handle_verification_code(t, code, twofa, net, fs, copy) ==
    /\ scen' = -1
    /\ UNCHANGED <<now, rateVars>>
    /\ IF t \notin DOMAIN pending_auth \/ pending_auth[t].step /= "code"
       THEN /\ ret' = ReturnLog("submit_code", t, FALSE, "No pending verification")
            /\ UNCHANGED <<hostVars, authVars>>
       ELSE LET r == VerifyCodeResult(t, code, twofa, net) IN
            /\ active_sessions' = r.sessions
            /\ authenticated_clients' = r.clients
            /\ telegram' = r.tg
            /\ IF r.success
               THEN complete_authentication(t, r.sessions, FALSE, fs, copy, "submit_code")
               ELSE /\ pending_auth' = IF r.status = "password_required"
                                       THEN [pending_auth EXCEPT ![t].step = "password"]
                                       ELSE pending_auth
                    /\ ret' = ReturnLog("submit_code", t,
                                        r.status = "password_required", r.message)
                    /\ UNCHANGED hostVars

HandleVerificationCode ==
    \E t \in AuthUsers, code \in Answers, twofa \in BOOLEAN, net \in NetOutcomes,
       fs \in ConfigOutcomes, copy \in {"ok", "fail"} :
        handle_verification_code(t, code, twofa, net, fs, copy)

handle_2fa_password(t, password, net, fs, copy) ==
    /\ scen' = -1
    /\ UNCHANGED <<now, rateVars>>
    /\ IF t \notin DOMAIN pending_auth \/ pending_auth[t].step /= "password"
       THEN /\ ret' = ReturnLog("submit_password", t, FALSE, "No pending 2FA verification")
            /\ UNCHANGED <<hostVars, authVars>>
       ELSE LET r == VerifyPasswordResult(t, password, net) IN
            /\ active_sessions' = r.sessions
            /\ authenticated_clients' = r.clients
            /\ telegram' = r.tg
            /\ IF r.success
               THEN complete_authentication(t, r.sessions, FALSE, fs, copy,
                                            "submit_password")
               ELSE /\ ret' = ReturnLog("submit_password", t, FALSE, r.message)
                    /\ UNCHANGED <<hostVars, pending_auth>>

Handle2faPassword ==
    \E t \in AuthUsers, password \in Answers, net \in NetOutcomes,
       fs \in ConfigOutcomes, copy \in {"ok", "fail"} :
        handle_2fa_password(t, password, net, fs, copy)

\* ---- specifications ----

\* the host manager: every tenant operation on every pool, worker processes,
\* host restarts
Next ==
    \/ CreateTenant
    \/ DeleteTenant
    \/ StartBot
    \/ StartResume
    \/ StopBot
    \/ HostManagerInit
    \/ ProcExit

Spec == Init /\ [][Next]_vars

\* tenants are created and deleted, the host restarts; no worker is started
NextTenants == CreateTenant \/ DeleteTenant \/ HostManagerInit

SpecTenants == Init /\ [][NextTenants]_vars

\* as SpecTenants, with direct calls of allocate and release on the pool
NextAll == CreateTenant \/ DeleteTenant \/ HostManagerInit \/ Allocate \/ Release

SpecAll == Init /\ [][NextAll]_vars

\* the pool alone, from any pool file whose counters are within capacity
LoadedPools ==
    UNION {[1..n -> {[api_id |-> 0, in_use |-> u, max_users |-> m, last_used |-> 0] :
                        m \in 1..MaxUsers, u \in 0..MaxUsers}] : n \in 1..MaxCreds}

InitPool ==
    /\ credentials \in {WithIds(p) : p \in
                          {q \in LoadedPools :
                             \A i \in 1..Len(q) : q[i].in_use <= q[i].max_users}}
    /\ credFile = credentials
    /\ user_instances = <<>>
    /\ instFile = <<>>
    /\ env = [t \in Tenants |-> FALSE]
    /\ procs = [p \in Pids |-> 0]
    /\ sigterm = {}
    /\ starting = [t \in Tenants |-> [live |-> 0, stale |-> 0]]
    /\ now = 1
    /\ ret = Return("init", 0, TRUE)
    /\ scen = -1
    /\ active_sessions = <<>>
    /\ authenticated_clients = {}
    /\ pending_auth = <<>>
    /\ telegram = [t \in Tenants |-> [state |-> "none", hash |-> 0]]
    /\ user_request_history = [u \in RateUsers |-> <<>>]
    /\ user_blocked_until = <<>>
    /\ metrics = [total_requests |-> 0, rate_limited_requests |-> 0,
                  blocked_requests |-> 0]
    /\ admitted = [u \in RateUsers |-> <<>>]

NextPool == GetAvailable \/ Allocate \/ Release \/ Tick

SpecPool == InitPool /\ [][NextPool]_vars

\* the workers: tenants are created on a pool of one credential that holds
\* MaxTenants of them, their workers are started and stopped, workers exit,
\* the host restarts
InitWorkers ==
    /\ Init
    /\ Len(credentials) = 1
    /\ credentials[1].max_users = MaxUsers

NextWorkers ==
    \/ CreateTenant
    \/ StartBot
    \/ StartResume
    \/ StopBot
    \/ ProcExit
    \/ HostManagerInit

SpecWorkers == InitWorkers /\ [][NextWorkers]_vars

\* the session manager alone: authentications are started, codes and
\* passwords are submitted, time passes
NextSessions == StartAuthentication \/ VerifyCode \/ VerifyPassword \/ Tick

SpecSessions == InitWorkers /\ [][NextSessions]_vars

\* the wizard's authentication: the proxy's handlers run one at a time, the
\* worker of an authenticated user is spawned, workers exit, the wizard's
\* process restarts, time passes
NextAuth ==
    \/ StartPhoneAuth
    \/ HandleVerificationCode
    \/ Handle2faPassword
    \/ StartResume
    \/ ProcExit
    \/ HostManagerInit
    \/ Tick

SpecAuth == InitWorkers /\ [][NextAuth]_vars

\* ---- properties ----

Saturated(pool) == \A i \in 1..Len(pool) : pool[i].in_use >= pool[i].max_users

SinglePoolOfOne ==
    Len(credentials) = 1 /\ credentials[1].max_users = 1

\* C1: in every reachable state, whatever create, delete, allocate and release
\* calls were made and whether they failed, every credential of the pool (in
\* memory and in the pool file) has 0 <= in_use <= max_users.
C1_InUseWithinCapacity ==
    /\ \A i \in 1..Len(credentials) :
          0 <= credentials[i].in_use /\ credentials[i].in_use <= credentials[i].max_users
    /\ \A i \in 1..Len(credFile) :
          0 <= credFile[i].in_use /\ credFile[i].in_use <= credFile[i].max_users

\* a credential at capacity refused an allocate while a tenant is registered
C1_Witness ==
    \E i \in 1..Len(credentials) :
        /\ ret = Return("allocate", i, FALSE)
        /\ credentials[i].in_use = credentials[i].max_users
        /\ DOMAIN user_instances /= {}

\* C2: with a pool of one credential of capacity 1, whatever the order in which
\* the event loop runs the create calls of different tenants, in_use never
\* exceeds 1, at most one tenant holds the credential, and a create call
\* succeeds only from a state where nothing is allocated.
C2_AtMostOneCreateSucceeds ==
    /\ [](SinglePoolOfOne =>
            /\ credentials[1].in_use <= 1
            /\ Cardinality(DOMAIN user_instances) <= 1)
    /\ [][(SinglePoolOfOne /\ ret'.op = "create" /\ ret'.ok) =>
            (credentials[1].in_use = 0 /\ DOMAIN user_instances = {})]_vars

\* the second of two creates failed while the first tenant holds the credential
C2_Witness ==
    /\ SinglePoolOfOne
    /\ DOMAIN user_instances = {1}
    /\ user_instances[1].pooled
    /\ ret = Return("create", 2, FALSE)

\* C3: create for a tenant id that is registered returns failure and leaves the
\* registry (the existing record included), the pool, both files and the
\* environments unchanged.
C3_DuplicateCreateFails ==
    [][\A t \in DOMAIN user_instances :
          (ret'.op = "create" /\ ret'.arg = t) =>
             /\ ~ret'.ok
             /\ UNCHANGED <<credentials, credFile, user_instances, instFile, env>>]_vars

\* a create was refused for a registered tenant while a credential was free
C3_Witness ==
    \E t \in DOMAIN user_instances :
        /\ ret = Return("create", t, FALSE)
        /\ get_available_credential(credentials) /= 0

\* C4 (as claimed): a delete that succeeds on a registered tenant, reloaded
\* from the registry file or not, lowers the pool's in_use of the tenant's
\* credential by exactly one, leaves the other credentials' in_use unchanged
\* and removes the tenant's environment.
C4_DeleteReleasesOneUnit ==
    [][\A t \in DOMAIN user_instances :
          (ret'.op = "delete" /\ ret'.arg = t /\ ret'.ok) =>
             LET c == PoolIndex(credentials, user_instances[t].api_id) IN
             /\ Len(credentials') = Len(credentials)
             /\ credentials'[c].in_use = credentials[c].in_use - 1
             /\ \A j \in 1..Len(credentials) :
                   j /= c => credentials'[j].in_use = credentials[j].in_use
             /\ ~env'[t]]_vars

\* C5 (as claimed): delete never returns success while the pool still counts
\* the unit allocated to the tenant: after a successful delete of a registered
\* tenant the pool's in_use of its credential is lower than before.
C5_NoSuccessWithLeak ==
    [][\A t \in DOMAIN user_instances :
          (ret'.op = "delete" /\ ret'.arg = t /\ ret'.ok) =>
             \E i \in 1..Len(credentials) :
                /\ credentials[i].api_id = user_instances[t].api_id
                /\ credentials'[i].in_use < credentials[i].in_use]_vars

\* C6 (as claimed): delete removes the registry entry only after the
\* environment was destroyed and the credential unit was given back: a step
\* that drops a tenant from the registry ends with the tenant's environment
\* gone and the pool's in_use of its credential lowered.
C6_RegistryEntryRemovedLast ==
    [][\A t \in DOMAIN user_instances :
          (ret'.op = "delete" /\ t \notin DOMAIN user_instances') =>
             /\ ~env'[t]
             /\ \E i \in 1..Len(credentials) :
                   /\ credentials[i].api_id = user_instances[t].api_id
                   /\ credentials'[i].in_use = credentials[i].in_use - 1]_vars

\* C7: on a fresh pool of one credential of capacity 1, create(1) succeeds with
\* in_use 1, create(2) then fails, delete(1) then succeeds with in_use 0 and
\* create(2) then succeeds with in_use 1; and whenever a successful delete
\* lowers a credential's in_use, a credential is available afterwards.
C7_Scenario ==
    /\ [](/\ scen = 1 => (ret = Return("create", 1, TRUE) /\ credentials[1].in_use = 1
                            /\ DOMAIN user_instances = {1})
          /\ scen = 2 => (ret = Return("create", 2, FALSE) /\ credentials[1].in_use = 1
                            /\ DOMAIN user_instances = {1})
          /\ scen = 3 => (ret = Return("delete", 1, TRUE) /\ credentials[1].in_use = 0
                            /\ DOMAIN user_instances = {})
          /\ scen = 4 => (ret = Return("create", 2, TRUE) /\ credentials[1].in_use = 1
                            /\ DOMAIN user_instances = {2}))
    /\ [][(/\ ret'.op = "delete" /\ ret'.ok
           /\ \E i \in 1..Len(credentials) :
                 credentials'[i].in_use < credentials[i].in_use)
          => get_available_credential(credentials') /= 0]_vars

\* the scenario was run to its end
C7_Witness == scen = 4 /\ SinglePoolOfOne

\* C8: when every credential is at capacity, create returns failure at once and
\* changes neither the pool, nor its file, nor the registry, nor its file, nor
\* any environment.
C8_ExhaustedCreateFails ==
    [][(Saturated(credentials) /\ ret'.op = "create") =>
          /\ ~ret'.ok
          /\ UNCHANGED <<credentials, credFile, user_instances, instFile, env>>]_vars

\* create(2) was refused for want of a credential, tenant 2 being unregistered
C8_Witness ==
    /\ scen = 2
    /\ Saturated(credentials)
    /\ ret = Return("create", 2, FALSE)
    /\ 2 \notin DOMAIN user_instances

\* C9: allocate on a credential with in_use = max_users returns failure and
\* leaves the pool (in_use and last_used of every credential) and its file
\* unchanged; on a credential with in_use < max_users it returns success and
\* raises that credential's in_use by exactly one, leaving the others' alone.
C9_Allocate ==
    [][\A i \in 1..Len(credentials) :
          (ret'.op = "allocate" /\ ret'.arg = i) =>
             IF credentials[i].in_use = credentials[i].max_users
             THEN ~ret'.ok /\ UNCHANGED <<credentials, credFile>>
             ELSE /\ ret'.ok
                  /\ Len(credentials') = Len(credentials)
                  /\ credentials'[i].in_use = credentials[i].in_use + 1
                  /\ \A j \in 1..Len(credentials) :
                        j /= i => credentials'[j] = credentials[j]]_vars

\* an allocate was refused on a saturated credential stamped at an earlier time
C9_Witness ==
    \E i \in 1..Len(credentials) :
        /\ ret = Return("allocate", i, FALSE)
        /\ credentials[i].in_use = credentials[i].max_users
        /\ credentials[i].last_used < now

\* C10: get_available returns a credential below capacity whose in_use is the
\* smallest among those below capacity, the first of them in pool order when
\* several tie; it returns none exactly when every credential is at capacity;
\* and it changes nothing in the pool.
C10_GetAvailable ==
    /\ [](ret.op = "get_available" =>
            LET c == ret.arg
                Eligible == {j \in 1..Len(credentials) :
                               credentials[j].in_use < credentials[j].max_users}
            IN /\ c \in Eligible \cup {0}
               /\ c = 0 <=> Saturated(credentials)
               /\ c /= 0 =>
                    \A j \in Eligible :
                       /\ credentials[c].in_use <= credentials[j].in_use
                       /\ credentials[j].in_use = credentials[c].in_use => c <= j)
    /\ [][ret'.op = "get_available" => UNCHANGED <<credentials, credFile>>]_vars

\* two credentials below capacity tied on in_use and the first was returned
C10_Witness ==
    /\ ret = Return("get_available", 1, TRUE)
    /\ Len(credentials) = 2
    /\ credentials[1].in_use = credentials[2].in_use
    /\ credentials[2].in_use < credentials[2].max_users
    /\ credentials[1].in_use > 0

\* C11: release on a credential with in_use = 0 returns (false, no error),
\* leaves in_use at 0 and the pool and its file unchanged; on a credential with
\* in_use > 0 it lowers that credential's in_use by exactly one and leaves
\* the other credentials alone.
C11_Release ==
    [][\A i \in 1..Len(credentials) :
          (ret'.op = "release" /\ ret'.arg = i) =>
             IF credentials[i].in_use = 0
             THEN /\ ~ret'.ok
                  /\ credentials'[i].in_use = 0
                  /\ UNCHANGED <<credentials, credFile>>
             ELSE /\ ret'.ok
                  /\ Len(credentials') = Len(credentials)
                  /\ credentials'[i].in_use = credentials[i].in_use - 1
                  /\ \A j \in 1..Len(credentials) :
                        j /= i => credentials'[j] = credentials[j]]_vars

\* a release was refused on an unused credential while another one is in use
C11_Witness ==
    \E i \in 1..Len(credentials) :
        /\ ret = Return("release", i, FALSE)
        /\ credentials[i].in_use = 0
        /\ \E j \in 1..Len(credentials) : credentials[j].in_use > 0

\* C12: a start call on a registered tenant whose status is active returns
\* True at once: no call is left suspended in the spawn, the process table,
\* the registry (process handle and status of the tenant included), its file,
\* the pool and the environments are unchanged.
C12_StartOnActive ==
    [][\A t \in DOMAIN user_instances :
          (/\ user_instances[t].status = "active"
           /\ ret'.op \in {"start", "start_suspended"}
           /\ ret'.arg = t) =>
             /\ ret' = Return("start", t, TRUE)
             /\ UNCHANGED <<user_instances, instFile, procs, starting, sigterm,
                            credentials, credFile, env>>]_vars

\* a start returned True on an active tenant whose worker runs
C12_Witness ==
    \E t \in DOMAIN user_instances :
        /\ ret = Return("start", t, TRUE)
        /\ user_instances[t].status = "active"
        /\ user_instances[t].process_id /= 0
        /\ procs[user_instances[t].process_id] = t

\* C13: a stop call on a tenant that is not active (registered with another
\* status, or not registered) returns True, sends no signal and leaves the
\* registry, its file, the pool, its file and the process table unchanged.
C13_StopOnInactive ==
    [][\A t \in Tenants :
          (/\ t \in DOMAIN user_instances => user_instances[t].status /= "active"
           /\ ret'.op = "stop"
           /\ ret'.arg = t) =>
             /\ ret'.ok
             /\ UNCHANGED <<user_instances, instFile, credentials, credFile,
                            sigterm, procs>>]_vars

\* a stop returned True on a registered inactive tenant whose worker of
\* before the restart still runs and whose file entry still says active
C13_Witness ==
    \E t \in DOMAIN user_instances :
        /\ ret.op = "stop" /\ ret.arg = t /\ ret.ok
        /\ user_instances[t].status = "inactive"
        /\ instFile[t].status = "active"
        /\ \E p \in Pids : procs[p] = t /\ p \notin sigterm

\* C14: a stop call on an active tenant, when os.kill raises nothing but
\* ProcessLookupError, returns True and ends with the tenant inactive, its
\* process handle cleared and the registry file rewritten, whether the
\* recorded process exists or not; when it does not exist no signal is sent.
C14_StopProcessGone ==
    [][\A t \in DOMAIN user_instances :
          (/\ user_instances[t].status = "active"
           /\ user_instances[t].process_id /= 0
           /\ stop_user_bot(t, "sent")) =>
             /\ ret'.op = "stop" /\ ret'.arg = t /\ ret'.ok
             /\ user_instances' = [user_instances EXCEPT ![t].status = "inactive",
                                                           ![t].process_id = 0]
             /\ instFile' = save_user_instances(credentials, user_instances')
             /\ procs[user_instances[t].process_id] = 0 => sigterm' = sigterm]_vars

\* a stop found the recorded process gone and left the tenant inactive
C14_Witness ==
    \E t \in DOMAIN user_instances :
        /\ ret = ReturnLog("stop", t, TRUE, "Process not found")
        /\ user_instances[t].status = "inactive"
        /\ user_instances[t].process_id = 0
        /\ instFile[t].status = "inactive"

\* C15 (as claimed): start calls on one tenant are serialized: of the start
\* calls made on an inactive tenant and suspended together in the spawn, only
\* one spawns a worker, so a call that resumes with a new worker finds the
\* tenant still inactive and leaves that worker's pid as the recorded handle.
C15_ConcurrentStartsSpawnOnce ==
    [][\A t \in DOMAIN user_instances, p \in Pids :
          (/\ ret' = Return("start_resumed", t, TRUE)
           /\ procs[p] = 0
           /\ procs'[p] = t) =>
             /\ user_instances[t].status = "inactive"
             /\ user_instances'[t].process_id = p]_vars

\* C16 (as claimed): after a host restart a tenant persisted with a process
\* handle that is not the pid of a running worker of that tenant has status
\* error, neither active nor inactive.
C16_UnverifiedHandleIsError ==
    [][\A t \in DOMAIN instFile :
          (/\ ret'.op = "restart"
           /\ instFile[t].process_id /= 0
           /\ procs[instFile[t].process_id] /= t) =>
             /\ t \in DOMAIN user_instances'
             /\ user_instances'[t].status = "error"]_vars

\* C17: whatever start_authentication, verify_code and verify_password calls
\* are made, a step that leaves a session with status password_required starts
\* from a session of the same user with status code_sent, or with
\* password_required already: never from no session, from pending, from
\* authenticated or from an error.
C17_PasswordRequiredOnlyFromCodeSent ==
    [][\A t \in Tenants :
          (/\ t \in DOMAIN active_sessions'
           /\ active_sessions'[t].status = "password_required") =>
             /\ t \in DOMAIN active_sessions
             /\ active_sessions[t].status \in {"code_sent", "password_required"}]_vars

\* verify_code moved a session from code_sent to password_required
C17_Witness ==
    \E t \in DOMAIN active_sessions :
        /\ ret = ReturnLog("verify_code", t, FALSE,
                           "Two-factor authentication password required")
        /\ active_sessions[t].status = "password_required"
        /\ telegram[t].state = "password"

\* C18 (as claimed): on a session with status code_sent or password_required
\* whose expires_at has passed, every verify_code and every verify_password
\* call fails and discards the session, so that it never becomes
\* authenticated.
C18_ExpiredSessionRejects ==
    [][\A t \in DOMAIN active_sessions :
          (/\ active_sessions[t].status \in {"code_sent", "password_required"}
           /\ now > active_sessions[t].expires_at
           /\ ret'.op \in {"verify_code", "verify_password"}
           /\ ret'.arg = t) =>
             /\ ~ret'.ok
             /\ t \notin DOMAIN active_sessions']_vars

\* C19: a refused submission can be repeated.  A code that Telegram refuses as
\* incorrect, submitted on a session with status code_sent that has not
\* expired, and a password that Telegram refuses, submitted on a session with
\* status password_required, are answered with a failure and leave the session
\* as it was (status, phone_code_hash and expires_at), request no new code,
\* keep the proxy's pending step and create no tenant and allocate nothing.
C19_RejectedSubmissionRecoverable ==
    [][\A t \in DOMAIN active_sessions :
          \A twofa \in BOOLEAN, fs \in ConfigOutcomes, copy \in {"ok", "fail"} :
             (\/ /\ active_sessions[t].status = "code_sent"
                 /\ now <= active_sessions[t].expires_at
                 /\ handle_verification_code(t, "incorrect", twofa, "ok", fs, copy)
              \/ /\ active_sessions[t].status = "password_required"
                 /\ handle_2fa_password(t, "incorrect", "ok", fs, copy)) =>
                /\ ~ret'.ok
                /\ t \in DOMAIN active_sessions'
                /\ active_sessions'[t] = active_sessions[t]
                /\ telegram' = telegram
                /\ UNCHANGED <<pending_auth, user_instances, instFile,
                               credentials, credFile, starting>>]_vars

\* an incorrect code was refused: the session still waits for the code it sent
C19_Witness ==
    \E t \in DOMAIN active_sessions :
        /\ ret = ReturnLog("submit_code", t, FALSE, "Invalid verification code")
        /\ active_sessions[t].status = "code_sent"
        /\ active_sessions[t].code_hash = telegram[t].hash
        /\ t \in DOMAIN pending_auth
        /\ pending_auth[t].step = "code"
        /\ t \notin DOMAIN user_instances

\* C20: a submit_code or submit_password step that brings a session to
\* authenticated runs the orchestration once: at most one credential gains
\* exactly one unit, at most this tenant is added to the registry, and either the tenant is registered with its worker being
\* started or the failure of the creation or of the start is reported.  A
\* submit step on a session that is already authenticated changes neither the
\* pool, nor the registry, nor their files, and starts nothing.
C20_OrchestrationOnce ==
    [][\A t \in DOMAIN active_sessions :
          (ret'.op \in {"submit_code", "submit_password"} /\ ret'.arg = t) =>
             IF active_sessions[t].status = "authenticated"
             THEN UNCHANGED <<credentials, credFile, user_instances, instFile,
                              starting, procs>>
             ELSE (t \in DOMAIN active_sessions'
                   /\ active_sessions'[t].status = "authenticated") =>
                  LET grown == {i \in 1..Len(credentials) :
                                  credentials'[i].in_use /= credentials[i].in_use}
                  IN
                  /\ Cardinality(grown) <= 1
                  /\ \A i \in grown :
                        credentials'[i].in_use = credentials[i].in_use + 1
                  /\ DOMAIN user_instances' \subseteq DOMAIN user_instances \cup {t}
                  /\ \/ ret'.log = "Failed to create your bot instance"
                     \/ /\ t \in DOMAIN user_instances' \ DOMAIN user_instances
                        /\ grown /= {}
                        /\ \/ ret'.log = "Failed to start your bot"
                           \/ starting'[t].live = starting[t].live + 1]_vars

\* after the tenant was created, a further code was submitted and refused
C20_Witness ==
    \E t \in DOMAIN active_sessions :
        /\ ret = ReturnLog("submit_code", t, FALSE, "No pending verification")
        /\ active_sessions[t].status = "authenticated"
        /\ t \in DOMAIN user_instances
        /\ user_instances[t].status = "active"
        /\ InstanceInUse(credentials, user_instances[t]) = 1

\* C21: when the creation of the tenant or the start of its worker fails after
\* the session became authenticated, the authentication is consumed all the
\* same: the submit step that ran the orchestration leaves no pending code or
\* password step for the user, and a text submitted afterwards is refused
\* without reaching the session manager, Telegram or the host manager.
C21_FailedOrchestrationConsumes ==
    /\ [][\A t \in AuthUsers :
            (/\ ret'.op \in {"submit_code", "submit_password"}
             /\ ret'.arg = t
             /\ ret'.log \in {"Failed to create your bot instance",
                              "Failed to start your bot", "start_suspended"}) =>
               /\ t \in DOMAIN active_sessions'
               /\ active_sessions'[t].status = "authenticated"
               /\ t \notin DOMAIN pending_auth']_vars
    /\ [][\A t \in AuthUsers :
            (/\ t \notin DOMAIN pending_auth
             /\ ret'.op \in {"submit_code", "submit_password"}
             /\ ret'.arg = t) =>
               /\ ~ret'.ok
               /\ UNCHANGED <<hostVars, authVars>>]_vars

\* the creation of the tenant failed after the code was accepted, and a code
\* submitted afterwards was refused
C21_Witness ==
    \E t \in DOMAIN active_sessions :
        /\ ret = ReturnLog("submit_code", t, FALSE, "No pending verification")
        /\ active_sessions[t].status = "authenticated"
        /\ t \notin DOMAIN user_instances
        /\ t \notin DOMAIN pending_auth
        /\ credentials[1].in_use = 1

\* C22: when start_phone_auth connects and Telegram reports the client as
\* authorized, the call succeeds without a code step: no code is requested
\* from Telegram, no session with status code_sent is stored, no pending code
\* step is left, and the orchestration runs in the same step (the tenant is
\* created and its worker started, or the failure of one of them is reported).
C22_AlreadyAuthorizedBypassesCode ==
    [][\A t \in AuthUsers, ph \in Phones, api_id \in 1..MaxCreds,
          send \in SendOutcomes, fs \in ConfigOutcomes, copy \in {"ok", "fail"} :
          (/\ telegram[t].state = "authorized"
           /\ start_phone_auth(t, ph, api_id, "ok", send, fs, copy)) =>
             /\ ret'.ok
             /\ telegram' = telegram
             /\ active_sessions' = active_sessions
             /\ t \in DOMAIN active_sessions' => active_sessions'[t].status /= "code_sent"
             /\ t \notin DOMAIN pending_auth'
             /\ ret'.log \in {"Failed to create your bot instance",
                              "Failed to start your bot", "start_suspended"}
             /\ (/\ t \notin DOMAIN user_instances
                 /\ get_available_credential(credentials) /= 0
                 /\ fs = "ok") =>
                   /\ t \in DOMAIN user_instances'
                   /\ copy = "ok" => starting'[t].live = starting[t].live + 1]_vars

\* after a restart of the wizard, start_phone_auth found the client authorized
\* and created the tenant without any session record
C22_Witness ==
    \E t \in DOMAIN user_instances :
        /\ ret = ReturnLog("start_phone_auth", t, TRUE, "start_suspended")
        /\ telegram[t].state = "authorized"
        /\ t \notin DOMAIN active_sessions
        /\ starting[t].live = 1

C24_TerminalSessionDiscarded ==
    \A t \in DOMAIN active_sessions :
        /\ ~(/\ active_sessions[t].status = "authenticated"
             /\ t \in DOMAIN user_instances)
        /\ ~(/\ active_sessions[t].status /= "authenticated"
             /\ now > active_sessions[t].expires_at)

\* C25: the tenant is created only for an authenticated user.  Every step of a
\* handler that reaches create_user_instance leaves the user's session with
\* status authenticated, or is a start_phone_auth that found the client
\* authorized by Telegram; every other step leaves the registry and the pool
\* as they were, so no tenant appears while its session is waiting for a code
\* or a password, is past its deadline without being authenticated, or was
\* refused.
C25_CreateOnlyWhenAuthenticated ==
    /\ [][\A t \in AuthUsers :
              (/\ ret'.op \in {"start_phone_auth", "submit_code", "submit_password"}
               /\ ret'.arg = t
               /\ ret'.log \in {"Failed to create your bot instance",
                                "Failed to start your bot", "start_suspended"}) =>
                  \/ /\ t \in DOMAIN active_sessions'
                     /\ active_sessions'[t].status = "authenticated"
                  \/ /\ ret'.op = "start_phone_auth"
                     /\ telegram[t].state = "authorized"
                     /\ telegram'[t].state = "authorized"]_vars
    /\ [][(\/ ret'.op \notin {"start_phone_auth", "submit_code", "submit_password"}
           \/ ret'.log \notin {"Failed to create your bot instance",
                               "Failed to start your bot", "start_suspended"}) =>
              /\ DOMAIN user_instances' = DOMAIN user_instances
              /\ \A i \in 1..Len(credentials) :
                     credentials'[i].in_use = credentials[i].in_use]_vars

\* the password step authenticated the session and the tenant was created
C25_Witness ==
    \E t \in DOMAIN user_instances :
        /\ ret = ReturnLog("submit_password", t, TRUE, "start_suspended")
        /\ t \in DOMAIN active_sessions
        /\ active_sessions[t].status = "authenticated"
        /\ telegram[t].state = "authorized"
        /\ credentials[1].in_use = 1

\* the host's scheduling: a suspended start_user_bot is resumed by the event
\* loop.  Nothing obliges a worker to exit: its handler of SIGTERM only clears
\* a flag (src/main.py:157-163), and the host never sends another signal.
SpecWorkersFair == SpecWorkers /\ WF_vars(StartResume)

\* C26: a worker that stop_user_bot signalled terminates: every process that
\* was sent SIGTERM and is still running eventually is not running.
C26_StoppedWorkerTerminates ==
    \A p \in Pids : (p \in sigterm /\ procs[p] /= 0) ~> (procs[p] = 0)

\* ---- the sweep of the session manager ----

\* the users cleanup_expired_sessions collects (lines 261-266)
ExpiredUsers(sessions, t) ==
    {u \in DOMAIN sessions :
        t > sessions[u].expires_at /\ sessions[u].status /= "authenticated"}

\* cleanup_expired_sessions(): disconnect_user for every collected user, which
\* removes client and session unless client.disconnect() raises
CleanupExpiredSessions ==
    \E disc \in {"ok", "fail"} :
        LET gone == IF disc = "ok" THEN ExpiredUsers(active_sessions, now) ELSE {} IN
        /\ active_sessions' = [u \in DOMAIN active_sessions \ gone |-> active_sessions[u]]
        /\ authenticated_clients' = authenticated_clients \ gone
        /\ ret' = ReturnLog("cleanup_expired_sessions", 0, TRUE, "")
        /\ scen' = -1
        /\ UNCHANGED <<hostVars, now, pending_auth, telegram, rateVars>>

\* the session manager with its sweep.  The sweep is a method that can be
\* called; no task, timer or handler of the repository calls it, so no
\* fairness is attached to it.  Time passes.
NextSweep == NextSessions \/ CleanupExpiredSessions

SpecSweepFair == InitWorkers /\ [][NextSweep]_vars /\ WF_vars(Tick)

\* C27: a session that is past its expires_at without being authenticated is
\* eventually removed from the store, whatever calls are made.
C27_ExpiredSessionSwept ==
    \A t \in AuthUsers :
        (/\ t \in DOMAIN active_sessions
         /\ active_sessions[t].status /= "authenticated"
         /\ now > active_sessions[t].expires_at) ~> (t \notin DOMAIN active_sessions)

\* ---- the resource monitor (security_manager.py) ----

MemoryLimitMb == 512
CpuLimitPercent == 25
OpenFilesLimit == 100
ConnectionsLimit == 50

\* what psutil can measure of a process: each quantity at its limit or just
\* above it
Samples ==
    [memory_mb : {MemoryLimitMb, MemoryLimitMb + 1},
     cpu_percent : {CpuLimitPercent, CpuLimitPercent + 1},
     open_files : {OpenFilesLimit, OpenFilesLimit + 1},
     network_connections : {ConnectionsLimit, ConnectionsLimit + 1}]

\* _check_resource_violations(user_id, monitoring_data): the list of the
\* limits exceeded, in the order of the tests
check_resource_violations(d) ==
    (IF d.memory_mb > MemoryLimitMb THEN <<"Memory usage">> ELSE <<>>)
    \o (IF d.cpu_percent > CpuLimitPercent THEN <<"CPU usage">> ELSE <<>>)
    \o (IF d.open_files > OpenFilesLimit THEN <<"Too many open files">> ELSE <<>>)
    \o (IF d.network_connections > ConnectionsLimit
        THEN <<"Too many connections">> ELSE <<>>)

\* a monitor that stops the worker it samples
MonitorEffectStopping(t, p) ==
    [insts |-> IF t \in DOMAIN user_instances
               THEN [user_instances EXCEPT ![t].status = "inactive"]
               ELSE user_instances,
     sig |-> IF procs[p] /= 0 THEN sigterm \cup {p} ELSE sigterm,
     log |-> IF procs[p] = 0 THEN "Process not found" ELSE "sampled"]

\* monitor_user_process(t, p): what it leaves of the registry and of the
\* signals sent, and the error it returns.  psutil.Process(p) raises
\* NoSuchProcess for a process that is gone; for a running one the dictionary
\* of line 148 is never built, because "timestamp": os.time.time() raises
\* AttributeError (os has no attribute time), so lines 160-167 (the store into
\* user_processes and the test of the limits) are not reached.
MonitorEffect(t, p) ==
    [insts |-> user_instances,
     sig |-> sigterm,
     log |-> IF procs[p] = 0 THEN "Process not found"
             ELSE "module 'os' has no attribute 'time'"]

MonitorUserProcess ==
    \E t \in Tenants, p \in Pids :
        LET e == MonitorEffect(t, p) IN
        /\ user_instances' = e.insts
        /\ sigterm' = e.sig
        /\ ret' = ReturnLog("monitor_user_process", t, FALSE, e.log)
        /\ scen' = -1
        /\ UNCHANGED <<credentials, credFile, instFile, env, procs, starting, now>>
        /\ UNCHANGED <<authVars, rateVars>>

\* a direct call of _check_resource_violations with the measures d
CheckResourceViolations ==
    \E d \in Samples :
        /\ ret' = ReturnLog("check_resource_violations", 0,
                            check_resource_violations(d) = <<>>,
                            IF check_resource_violations(d) = <<>> THEN ""
                            ELSE Head(check_resource_violations(d)))
        /\ scen' = -1
        /\ UNCHANGED <<hostVars, now>>
        /\ UNCHANGED <<authVars, rateVars>>

\* the workers of one pool, sampled by the monitor
NextMonitor ==
    \/ NextWorkers
    \/ MonitorUserProcess
    \/ CheckResourceViolations

SpecMonitor == InitWorkers /\ [][NextMonitor]_vars

\* C28: the resource monitor only reports.  A call of monitor_user_process or
\* of _check_resource_violations, whatever it measures and whether or not a
\* limit is exceeded, leaves every tenant's status and process id, the
\* registry and its file, the pool and its file, the processes and the
\* environments unchanged, and sends no signal.
C28_MonitorOnlyReports ==
    [][ret'.op \in {"monitor_user_process", "check_resource_violations"} =>
          UNCHANGED <<user_instances, instFile, credentials, credFile, procs,
                      sigterm, starting, env>>]_vars

\* limits were found exceeded while a tenant's worker is running
C28_Witness ==
    /\ ret.op = "check_resource_violations"
    /\ ~ret.ok
    /\ ret.log = "Memory usage"
    /\ \E t \in DOMAIN user_instances :
           /\ user_instances[t].status = "active"
           /\ user_instances[t].process_id \in Pids
           /\ procs[user_instances[t].process_id] /= 0

OverwriteOutcomes == {"ok", "fail"}

\* cleanup_user_data(t, secure_delete): with secure_delete every regular file
\* is overwritten with random bytes, a failure of which is logged and passed
\* over (lines 208-214); then the directory is removed.  log tells what became
\* of the files' content before the removal.
cleanup_user_data(t, secure_delete, ow, rm) ==
    LET log == IF ~secure_delete THEN "secure deletion not requested"
               ELSE IF ow = "ok" THEN "overwritten"
               ELSE "Could not securely overwrite" IN
    /\ IF ~env[t]
       THEN /\ env' = env
            /\ ret' = ReturnLog("cleanup_user_data", t, TRUE, "")
       ELSE IF rm = "fail"
       THEN /\ env' = env
            /\ ret' = ReturnLog("cleanup_user_data", t, FALSE, log)
       ELSE /\ env' = [env EXCEPT ![t] = FALSE]
            /\ ret' = ReturnLog("cleanup_user_data", t, TRUE, log)
    /\ scen' = -1
    /\ UNCHANGED <<credentials, credFile, user_instances, instFile, procs,
                   sigterm, starting, now>>
    /\ UNCHANGED <<authVars, rateVars>>

CleanupUserData ==
    \E t \in Tenants, secure_delete \in BOOLEAN, ow \in OverwriteOutcomes,
       rm \in RmtreeOutcomes :
        cleanup_user_data(t, secure_delete, ow, rm)

\* tenants are created and deleted, the host restarts, and the security
\* manager's cleanup is called
NextCleanup == NextTenants \/ CleanupUserData

SpecCleanup == Init /\ [][NextCleanup]_vars

\* C30: an environment is destroyed only with its files overwritten: every
\* step that removes a tenant's environment is a cleanup_user_data that was
\* not asked for secure deletion or that overwrote the files first; in
\* particular the delete operation removes no environment by itself.
C30_OverwrittenBeforeRemoval ==
    [][\A t \in Tenants :
          (env[t] /\ ~env'[t]) =>
              /\ ret'.op = "cleanup_user_data"
              /\ ret'.arg = t
              /\ ret'.log \in {"overwritten", "secure deletion not requested"}]_vars

\* ---- the whole life of the tenants of one credential ----

\* tenants are created, started, stopped and deleted, workers exit, the host
\* restarts
NextLifecycle == NextWorkers \/ DeleteTenant

SpecLifecycle == InitWorkers /\ [][NextLifecycle]_vars

\* what the registry holds of tenant u: phone, assigned credential, status and
\* process id, or nothing
RecordOf(insts, u) ==
    IF u \in DOMAIN insts
    THEN <<insts[u].phone, insts[u].api_id, insts[u].status, insts[u].process_id>>
    ELSE <<>>

\* C31: operations on different tenants are independent.  A step of
\* create_user_instance, start_user_bot (either half), stop_user_bot or
\* remove_user_instance for tenant a leaves the registry record of every other
\* tenant b (phone, credential, status, process id) and b's environment as
\* they were.
C31_OtherTenantUntouched ==
    [][\A a, b \in Tenants :
          (/\ a /= b
           /\ ret'.arg = a
           /\ ret'.op \in {"create", "start", "start_suspended", "start_resumed",
                           "stop", "delete"}) =>
              /\ RecordOf(user_instances', b) = RecordOf(user_instances, b)
              /\ env'[b] = env[b]]_vars

\* tenant 1 was deleted while tenant 2 is registered, active and has its
\* environment
C31_Witness ==
    /\ ret = Return("delete", 1, TRUE)
    /\ 1 \notin DOMAIN user_instances
    /\ 2 \in DOMAIN user_instances
    /\ user_instances[2].status = "active"
    /\ env[2]

\* ---- security.SecurityManager.check_rate_limit (the worker's rate limiter) ----
\* In the specifications of the rate limiter one unit of now is the rate
\* window of the default configuration (RATE_LIMIT_PERIOD = 60 s), and
\* RateLimitRequests stands for RATE_LIMIT_REQUESTS (default 10).

HistoryMaxLen == 100
\* block_duration = 300 s
BlockDuration == 5 * RateLimitPeriod

\* lines 81-83: requests older than the window are popped from the left
RECURSIVE PruneHistory(_, _)
PruneHistory(h, cutoff) ==
    IF h /= <<>> /\ Head(h) < cutoff THEN PruneHistory(Tail(h), cutoff) ELSE h

\* deque(maxlen=100).append
DequeAppend(h, x) ==
    IF Len(h) >= HistoryMaxLen THEN Append(Tail(h), x) ELSE Append(h, x)

\* a test of the limit that admits one request more
OverLimitStrict(h) == Len(h) > RateLimitRequests

\* line 86
OverLimit(h) == Len(h) >= RateLimitRequests

\* check_rate_limit(u) at time now
check_rate_limit(u) ==
    LET blocked == u \in DOMAIN user_blocked_until /\ now < user_blocked_until[u]
        unblocked == Drop(user_blocked_until, u)
        h == PruneHistory(user_request_history[u], now - RateLimitPeriod)
    IN
    IF blocked
    THEN /\ metrics.blocked_requests < MaxRefused
         /\ metrics' = [metrics EXCEPT !.blocked_requests = @ + 1]
         /\ ret' = ReturnLog("check_rate_limit", u, FALSE, "blocked")
         /\ UNCHANGED <<user_request_history, user_blocked_until, admitted>>
    ELSE IF OverLimit(h)
    THEN /\ metrics.rate_limited_requests < MaxRefused
         /\ metrics' = [metrics EXCEPT !.rate_limited_requests = @ + 1]
         /\ user_request_history' = [user_request_history EXCEPT ![u] = h]
         /\ user_blocked_until' =
                IF Len(h) >= RateLimitRequests * 2
                THEN Put(unblocked, u, now + BlockDuration)
                ELSE unblocked
         /\ ret' = ReturnLog("check_rate_limit", u, FALSE, "rate limited")
         /\ UNCHANGED admitted
    ELSE /\ metrics' = [metrics EXCEPT !.total_requests = @ + 1]
         /\ user_request_history' = [user_request_history EXCEPT ![u] = DequeAppend(h, now)]
         /\ user_blocked_until' = unblocked
         /\ admitted' = [admitted EXCEPT ![u] = Append(@, now)]
         /\ ret' = ReturnLog("check_rate_limit", u, TRUE, "")

CheckRateLimit ==
    \E u \in RateUsers :
        /\ check_rate_limit(u)
        /\ scen' = -1
        /\ UNCHANGED <<hostVars, authVars, now>>

\* the clock of the worker's process
RateTick ==
    /\ now < MaxTime
    /\ now' = now + 1
    /\ ret' = Return("none", 0, TRUE)
    /\ UNCHANGED <<hostVars, authVars, rateVars, scen>>

\* the worker's rate limiter: requests are checked, time passes
NextRate == CheckRateLimit \/ RateTick

SpecRate == InitWorkers /\ [][NextRate]_vars

\* the number of requests of the sequence a admitted at a time in [lo, hi]
AdmittedIn(a, lo, hi) == Cardinality({i \in DOMAIN a : lo <= a[i] /\ a[i] <= hi})

\* C32: per-user rate limiting.  In every window of RateLimitPeriod no more
\* than RateLimitRequests requests of a user are admitted; and a call of
\* check_rate_limit returns True exactly when fewer than RateLimitRequests
\* requests of that user were admitted in the window that ends now, so the
\* first RateLimitRequests calls of a window are admitted and the next is not.
C32_RateLimitPerUser ==
    /\ [](\A u \in RateUsers : \A T \in 1..MaxTime :
              AdmittedIn(admitted[u], T - RateLimitPeriod, T) <= RateLimitRequests)
    /\ [][\A u \in RateUsers :
              (ret'.op = "check_rate_limit" /\ ret'.arg = u) =>
                  (ret'.ok <=> AdmittedIn(admitted[u], now - RateLimitPeriod, now)
                                   < RateLimitRequests)]_vars

\* a user was refused after the window had moved on: more requests than the
\* limit were admitted over time, the last RateLimitRequests of them in the
\* window that ends now
C32_Witness ==
    \E u \in RateUsers :
        /\ ret = ReturnLog("check_rate_limit", u, FALSE, "rate limited")
        /\ Len(admitted[u]) > RateLimitRequests
        /\ AdmittedIn(admitted[u], now - RateLimitPeriod, now) = RateLimitRequests

\* C33: repeated violations lead to a block.  Once the limiter has refused
\* 2 * RateLimitRequests requests for every user it serves, which is only
\* possible when some user was refused at least 2 * RateLimitRequests times,
\* some user is blocked.
C33_RepeatedViolationsBlock ==
    metrics.rate_limited_requests >= 2 * MaxRateUsers * RateLimitRequests =>
        user_blocked_until /= <<>>

\* no call of check_rate_limit ever blocks a user
NeverBlocked == user_blocked_until = <<>> /\ metrics.blocked_requests = 0

\* C34: in the registry a tenant is active exactly when its process id is
\* set.  Start sets both, stop and the reload after a restart clear both, and
\* a start that fails leaves the tenant's record as it was.
C34_ActiveIffProcessId ==
    /\ [](\A t \in DOMAIN user_instances :
              /\ user_instances[t].status \in {"inactive", "active"}
              /\ user_instances[t].status = "active" <=>
                     user_instances[t].process_id /= 0)
    /\ [][\A t \in Tenants :
              (/\ ret'.op \in {"start", "start_resumed"}
               /\ ret'.arg = t
               /\ ~ret'.ok) =>
                  RecordOf(user_instances', t) = RecordOf(user_instances, t)]_vars
    /\ [][ret'.op = "restart" =>
              \A t \in DOMAIN user_instances' :
                  /\ user_instances'[t].status = "inactive"
                  /\ user_instances'[t].process_id = 0]_vars

\* the spawn of one tenant's worker failed and left it inactive without a
\* process id, while another tenant is active with one
C34_Witness ==
    \E t, u \in DOMAIN user_instances :
        /\ ret.op = "start_resumed" /\ ret.arg = t /\ ~ret.ok
        /\ user_instances[t].status = "inactive"
        /\ user_instances[t].process_id = 0
        /\ user_instances[u].status = "active"
        /\ user_instances[u].process_id /= 0

\* the sum of in_use over the pool (get_system_status, line 414)
RECURSIVE SumInUse(_)
SumInUse(pool) ==
    IF pool = <<>> THEN 0 ELSE Head(pool).in_use + SumInUse(Tail(pool))

\* C35: conservation of credential usage: the units in use over the whole pool
\* are as many as the registered tenants.
C35_UsageConserved ==
    SumInUse(credentials) = Cardinality(DOMAIN user_instances)

\* C36: a create_user_instance that fails leaves every credential's in_use as
\* it was before the call.
C36_FailedCreateKeepsInUse ==
    [][(ret'.op = "create" /\ ~ret'.ok) =>
          /\ Len(credentials') = Len(credentials)
          /\ \A i \in 1..Len(credentials) :
                 credentials'[i].in_use = credentials[i].in_use]_vars

\* C37: the proxy's prompt state and the session store agree: for every
\* pending entry the session manager holds a session of that user, waiting for
\* the code when the step is code and for the password when it is password.
C37_PendingHasMatchingSession ==
    \A t \in DOMAIN pending_auth :
        /\ t \in DOMAIN active_sessions
        /\ pending_auth[t].step = "code" => active_sessions[t].status = "code_sent"
        /\ pending_auth[t].step = "password" =>
               active_sessions[t].status = "password_required"

\* ---- the wizard's flow beside other tenants ----

\* a pool of two credentials
InitWizard == Init /\ Len(credentials) = 2

\* a user goes through the wizard's authentication while tenants are created
\* and deleted on the same pool; the workers' spawns stay suspended
NextWizard ==
    \/ StartPhoneAuth
    \/ HandleVerificationCode
    \/ Handle2faPassword
    \/ CreateTenant
    \/ DeleteTenant

SpecWizard == InitWizard /\ [][NextWizard]_vars

\* C38: the credential the user's Telegram session was authenticated with,
\* the one get_available_credential returned when the phone number was
\* submitted, is the credential the tenant is created with: a code or password
\* step that registers the tenant registers it with the api_id of its pending
\* entry.
C38_AuthenticatedCredentialIsAllocated ==
    [][\A t \in AuthUsers :
          (/\ ret'.op \in {"submit_code", "submit_password"}
           /\ ret'.arg = t
           /\ t \in DOMAIN pending_auth
           /\ t \notin DOMAIN user_instances
           /\ t \in DOMAIN user_instances') =>
              user_instances'[t].api_id = pending_auth[t].api_id]_vars

\* C39: a tenant created through the authentication flow is registered with
\* the phone number that was passed to start_authentication: on the code path
\* the phone of the session that was authenticated, on the bypass path the
\* phone of the start_phone_auth that found the client authorized.
C39_RegisteredWithSubmittedPhone ==
    /\ [][\A t \in AuthUsers :
              (/\ ret'.op \in {"submit_code", "submit_password"}
               /\ ret'.arg = t
               /\ t \in DOMAIN active_sessions
               /\ t \notin DOMAIN user_instances
               /\ t \in DOMAIN user_instances') =>
                  user_instances'[t].phone = active_sessions[t].phone]_vars
    /\ [][\A t \in AuthUsers, ph \in Phones, api_id \in 1..MaxCreds,
              conn \in StartOutcomes, send \in SendOutcomes,
              fs \in ConfigOutcomes, copy \in {"ok", "fail"} :
              (/\ start_phone_auth(t, ph, api_id, conn, send, fs, copy)
               /\ t \notin DOMAIN user_instances
               /\ t \in DOMAIN user_instances') =>
                  user_instances'[t].phone = ph]_vars

\* C40: start and delete of one tenant do not race.  A tenant that delete
\* removed is neither in the registry nor in its file when delete returns, and
\* a start that returns with a spawned worker returns it for a registered
\* tenant whose record holds the worker's pid, so no worker is spawned for a
\* tenant that was deleted while the start was suspended.
C40_NoWorkerForDeletedTenant ==
    /\ [](\A t \in Tenants :
              ret = Return("delete", t, TRUE) =>
                  t \notin DOMAIN user_instances /\ t \notin DOMAIN instFile)
    /\ [][\A t \in Tenants :
              (ret'.op = "start_resumed" /\ ret'.arg = t /\ ret'.ok) =>
                  /\ t \in DOMAIN user_instances'
                  /\ \E p \in Pids :
                         /\ procs[p] = 0
                         /\ procs'[p] = t
                         /\ user_instances'[t].process_id = p]_vars
====
